---------------------------- MODULE Spec2Model ----------------------------
(***************************************************************************)
(* Model of quick_win_demo.py: the order register that turns a free-text   *)
(* order message into a GoldenRecord (line extraction, SKU matching,       *)
(* validation) and keeps the records in an in-memory register.             *)
(*                                                                         *)
(* Text is a sequence of code points, so that the regular expression,      *)
(* strip(), lower(), split() and the substring test are computed character *)
(* by character as Python computes them, on every character a str can      *)
(* hold.  An int is its decimal numeral, a sequence of digit values with   *)
(* the most significant first and no leading zero (<<0>> is 0), since int  *)
(* has no width.  A float is a reduced fraction [num, den]: the scores of  *)
(* the program are 0.0, 0.1, 0.9 and quotients of two small set sizes, and *)
(* on those the order and the equality of the fractions are those of the   *)
(* IEEE doubles.  An Optional[str] is <<>> (None) or <<s>>.  A call that   *)
(* can raise yields [exception, value].                                    *)
(***************************************************************************)
EXTENDS Integers, Sequences, FiniteSets, TLC

VARIABLES
    catalog,    \* SKUMatcher.catalog / QuickWinPipeline.catalog
    heap,       \* the GoldenRecord objects created so far, by object id
    register,   \* QuickWinPipeline.register: insertion-ordered <<key, object id>>
    calls,      \* history: the completed ingest calls and the object each returned
    raised,     \* history: the ingest calls that raised, and the exception
    pc,         \* position inside ingest: "idle", "extract", "match", "store"
    cur,        \* the arguments and the record of the ingest call in progress
    dashOut,    \* what the last dashboard() call returned
    fnIn,       \* the argument of the pure function under check
    fnOut,      \* its result
    fnDone      \* whether it has been applied

vars == <<catalog, heap, register, calls, raised, pc, cur, dashOut, fnIn, fnOut, fnDone>>

---------------------------------------------------------------------------
(* Bounds of the model. *)

\* the number of ingest calls of one behaviour
MaxIngests == 2
\* the length of the enumerated messages given to _extract_lines
MaxMsgLen == 4
\* the number of items of the enumerated catalogs given to SKUMatcher.match
MaxItems == 2

---------------------------------------------------------------------------
(* Characters and text.  The tables are those of the Unicode database of   *)
(* the interpreter the program runs on (Python 3.11, Unicode 14.0).        *)

\* str.isspace(): the characters \s matches and strip() and split() drop, as ranges
WhitespaceRanges ==
    {<<9, 13>>, <<28, 32>>, <<133, 133>>, <<160, 160>>, <<5760, 5760>>,
      <<8192, 8202>>, <<8232, 8233>>, <<8239, 8239>>, <<8287, 8287>>, <<12288, 12288>>}

Whitespace == UNION {r[1]..r[2] : r \in WhitespaceRanges}

\* the digit zero of every block of ten decimal digits; \d matches a block's digits
DigitZeros ==
    {48, 1632, 1776, 1984, 2406, 2534, 2662, 2790, 2918, 3046, 3174, 3302, 3430, 3558,
      3664, 3792, 3872, 4160, 4240, 6112, 6160, 6470, 6608, 6784, 6800, 6992, 7088,
      7232, 7248, 42528, 43216, 43264, 43472, 43504, 43600, 44016, 65296, 66720, 68912,
      69734, 69872, 69942, 70096, 70384, 70736, 70864, 71248, 71360, 71472, 71904,
      72016, 72784, 73040, 73120, 92768, 92864, 93008, 120782, 120792, 120802, 120812,
      120822, 123200, 123632, 125264, 130032}

\* \d of the regular expression: every Unicode decimal digit
Digit == UNION {z..(z + 9) : z \in DigitZeros}

\* the character class [A-Za-z0-9 \-\."'] of the item group: ASCII only
ItemChar == (65..90) \cup (97..122) \cup (48..57) \cup {32, 45, 46, 34, 39}

\* the value int() gives a decimal digit: its offset in its block
DigitValue(c) == c - (CHOOSE z \in DigitZeros : z <= c /\ c <= z + 9)

\* a call that returned v, and a call that raised the exception e
Return(v) == [exception |-> "None", value |-> v]
Raise(e) == [exception |-> e, value |-> <<>>]

\* sys.get_int_max_str_digits(): the longest digit string int() converts
IntMaxStrDigits == 4300

\* int(text) on a run of decimal digits: the numeral of the value (leading zeros
\* dropped), or ValueError when the run has more than IntMaxStrDigits digits
ParseInt(ds) ==
    IF Len(ds) > IntMaxStrDigits THEN Raise("ValueError")
    ELSE LET nz == {i \in 1..Len(ds) : DigitValue(ds[i]) # 0}
         IN  IF nz = {} THEN Return(<<0>>)
             ELSE LET first == CHOOSE i \in nz : \A j \in nz : i <= j
                  IN  Return([k \in 1..(Len(ds) - first + 1) |->
                                 DigitValue(ds[first + k - 1])])

\* the characters str.lower() maps to one other character, whatever the context:
\* <<lo, hi, step, delta>> maps lo, lo + step, ..., hi to themselves plus delta
LowerRuns ==
    {<<65, 90, 1, 32>>, <<192, 214, 1, 32>>, <<216, 222, 1, 32>>, <<256, 302, 2, 1>>,
      <<306, 310, 2, 1>>, <<313, 327, 2, 1>>, <<330, 374, 2, 1>>,
      <<376, 376, 1, -121>>, <<377, 381, 2, 1>>, <<385, 385, 1, 210>>,
      <<386, 388, 2, 1>>, <<390, 390, 1, 206>>, <<391, 391, 1, 1>>,
      <<393, 393, 1, 205>>, <<394, 394, 1, 205>>, <<395, 395, 1, 1>>,
      <<398, 398, 1, 79>>, <<399, 399, 1, 202>>, <<400, 400, 1, 203>>,
      <<401, 401, 1, 1>>, <<403, 403, 1, 205>>, <<404, 404, 1, 207>>,
      <<406, 406, 1, 211>>, <<407, 407, 1, 209>>, <<408, 408, 1, 1>>,
      <<412, 412, 1, 211>>, <<413, 413, 1, 213>>, <<415, 415, 1, 214>>,
      <<416, 420, 2, 1>>, <<422, 422, 1, 218>>, <<423, 423, 1, 1>>,
      <<425, 425, 1, 218>>, <<428, 428, 1, 1>>, <<430, 430, 1, 218>>,
      <<431, 431, 1, 1>>, <<433, 433, 1, 217>>, <<434, 434, 1, 217>>,
      <<435, 437, 2, 1>>, <<439, 439, 1, 219>>, <<440, 440, 1, 1>>, <<444, 444, 1, 1>>,
      <<452, 452, 1, 2>>, <<453, 453, 1, 1>>, <<455, 455, 1, 2>>, <<456, 456, 1, 1>>,
      <<458, 458, 1, 2>>, <<459, 475, 2, 1>>, <<478, 494, 2, 1>>, <<497, 497, 1, 2>>,
      <<498, 500, 2, 1>>, <<502, 502, 1, -97>>, <<503, 503, 1, -56>>,
      <<504, 542, 2, 1>>, <<544, 544, 1, -130>>, <<546, 562, 2, 1>>,
      <<570, 570, 1, 10795>>, <<571, 571, 1, 1>>, <<573, 573, 1, -163>>,
      <<574, 574, 1, 10792>>, <<577, 577, 1, 1>>, <<579, 579, 1, -195>>,
      <<580, 580, 1, 69>>, <<581, 581, 1, 71>>, <<582, 590, 2, 1>>, <<880, 882, 2, 1>>,
      <<886, 886, 1, 1>>, <<895, 895, 1, 116>>, <<902, 902, 1, 38>>,
      <<904, 906, 1, 37>>, <<908, 908, 1, 64>>, <<910, 910, 1, 63>>,
      <<911, 911, 1, 63>>, <<913, 929, 1, 32>>, <<932, 939, 1, 32>>,
      <<975, 975, 1, 8>>, <<984, 1006, 2, 1>>, <<1012, 1012, 1, -60>>,
      <<1015, 1015, 1, 1>>, <<1017, 1017, 1, -7>>, <<1018, 1018, 1, 1>>,
      <<1021, 1023, 1, -130>>, <<1024, 1039, 1, 80>>, <<1040, 1071, 1, 32>>,
      <<1120, 1152, 2, 1>>, <<1162, 1214, 2, 1>>, <<1216, 1216, 1, 15>>,
      <<1217, 1229, 2, 1>>, <<1232, 1326, 2, 1>>, <<1329, 1366, 1, 48>>,
      <<4256, 4293, 1, 7264>>, <<4295, 4295, 1, 7264>>, <<4301, 4301, 1, 7264>>,
      <<5024, 5103, 1, 38864>>, <<5104, 5109, 1, 8>>, <<7312, 7354, 1, -3008>>,
      <<7357, 7359, 1, -3008>>, <<7680, 7828, 2, 1>>, <<7838, 7838, 1, -7615>>,
      <<7840, 7934, 2, 1>>, <<7944, 7951, 1, -8>>, <<7960, 7965, 1, -8>>,
      <<7976, 7983, 1, -8>>, <<7992, 7999, 1, -8>>, <<8008, 8013, 1, -8>>,
      <<8025, 8031, 2, -8>>, <<8040, 8047, 1, -8>>, <<8072, 8079, 1, -8>>,
      <<8088, 8095, 1, -8>>, <<8104, 8111, 1, -8>>, <<8120, 8120, 1, -8>>,
      <<8121, 8121, 1, -8>>, <<8122, 8122, 1, -74>>, <<8123, 8123, 1, -74>>,
      <<8124, 8124, 1, -9>>, <<8136, 8139, 1, -86>>, <<8140, 8140, 1, -9>>,
      <<8152, 8152, 1, -8>>, <<8153, 8153, 1, -8>>, <<8154, 8154, 1, -100>>,
      <<8155, 8155, 1, -100>>, <<8168, 8168, 1, -8>>, <<8169, 8169, 1, -8>>,
      <<8170, 8170, 1, -112>>, <<8171, 8171, 1, -112>>, <<8172, 8172, 1, -7>>,
      <<8184, 8184, 1, -128>>, <<8185, 8185, 1, -128>>, <<8186, 8186, 1, -126>>,
      <<8187, 8187, 1, -126>>, <<8188, 8188, 1, -9>>, <<8486, 8486, 1, -7517>>,
      <<8490, 8490, 1, -8383>>, <<8491, 8491, 1, -8262>>, <<8498, 8498, 1, 28>>,
      <<8544, 8559, 1, 16>>, <<8579, 8579, 1, 1>>, <<9398, 9423, 1, 26>>,
      <<11264, 11311, 1, 48>>, <<11360, 11360, 1, 1>>, <<11362, 11362, 1, -10743>>,
      <<11363, 11363, 1, -3814>>, <<11364, 11364, 1, -10727>>, <<11367, 11371, 2, 1>>,
      <<11373, 11373, 1, -10780>>, <<11374, 11374, 1, -10749>>,
      <<11375, 11375, 1, -10783>>, <<11376, 11376, 1, -10782>>, <<11378, 11378, 1, 1>>,
      <<11381, 11381, 1, 1>>, <<11390, 11390, 1, -10815>>, <<11391, 11391, 1, -10815>>,
      <<11392, 11490, 2, 1>>, <<11499, 11501, 2, 1>>, <<11506, 11506, 1, 1>>,
      <<42560, 42604, 2, 1>>, <<42624, 42650, 2, 1>>, <<42786, 42798, 2, 1>>,
      <<42802, 42862, 2, 1>>, <<42873, 42875, 2, 1>>, <<42877, 42877, 1, -35332>>,
      <<42878, 42886, 2, 1>>, <<42891, 42891, 1, 1>>, <<42893, 42893, 1, -42280>>,
      <<42896, 42898, 2, 1>>, <<42902, 42920, 2, 1>>, <<42922, 42922, 1, -42308>>,
      <<42923, 42923, 1, -42319>>, <<42924, 42924, 1, -42315>>,
      <<42925, 42925, 1, -42305>>, <<42926, 42926, 1, -42308>>,
      <<42928, 42928, 1, -42258>>, <<42929, 42929, 1, -42282>>,
      <<42930, 42930, 1, -42261>>, <<42931, 42931, 1, 928>>, <<42932, 42946, 2, 1>>,
      <<42948, 42948, 1, -48>>, <<42949, 42949, 1, -42307>>,
      <<42950, 42950, 1, -35384>>, <<42951, 42953, 2, 1>>, <<42960, 42960, 1, 1>>,
      <<42966, 42968, 2, 1>>, <<42997, 42997, 1, 1>>, <<65313, 65338, 1, 32>>,
      <<66560, 66599, 1, 40>>, <<66736, 66771, 1, 40>>, <<66928, 66938, 1, 39>>,
      <<66940, 66954, 1, 39>>, <<66956, 66962, 1, 39>>, <<66964, 66964, 1, 39>>,
      <<66965, 66965, 1, 39>>, <<68736, 68786, 1, 64>>, <<71840, 71871, 1, 32>>,
      <<93760, 93791, 1, 32>>, <<125184, 125217, 1, 34>>}

\* the characters that are cased and not case-ignorable, as ranges
CasedRanges ==
    {<<65, 90>>, <<97, 122>>, <<170, 170>>, <<181, 181>>, <<186, 186>>, <<192, 214>>,
      <<216, 246>>, <<248, 442>>, <<444, 447>>, <<452, 659>>, <<661, 687>>,
      <<880, 883>>, <<886, 887>>, <<891, 893>>, <<895, 895>>, <<902, 902>>,
      <<904, 906>>, <<908, 908>>, <<910, 929>>, <<931, 1013>>, <<1015, 1153>>,
      <<1162, 1327>>, <<1329, 1366>>, <<1376, 1416>>, <<4256, 4293>>, <<4295, 4295>>,
      <<4301, 4301>>, <<4304, 4346>>, <<4349, 4351>>, <<5024, 5109>>, <<5112, 5117>>,
      <<7296, 7304>>, <<7312, 7354>>, <<7357, 7359>>, <<7424, 7467>>, <<7531, 7543>>,
      <<7545, 7578>>, <<7680, 7957>>, <<7960, 7965>>, <<7968, 8005>>, <<8008, 8013>>,
      <<8016, 8023>>, <<8025, 8025>>, <<8027, 8027>>, <<8029, 8029>>, <<8031, 8061>>,
      <<8064, 8116>>, <<8118, 8124>>, <<8126, 8126>>, <<8130, 8132>>, <<8134, 8140>>,
      <<8144, 8147>>, <<8150, 8155>>, <<8160, 8172>>, <<8178, 8180>>, <<8182, 8188>>,
      <<8450, 8450>>, <<8455, 8455>>, <<8458, 8467>>, <<8469, 8469>>, <<8473, 8477>>,
      <<8484, 8484>>, <<8486, 8486>>, <<8488, 8488>>, <<8490, 8493>>, <<8495, 8500>>,
      <<8505, 8505>>, <<8508, 8511>>, <<8517, 8521>>, <<8526, 8526>>, <<8544, 8575>>,
      <<8579, 8580>>, <<9398, 9449>>, <<11264, 11387>>, <<11390, 11492>>,
      <<11499, 11502>>, <<11506, 11507>>, <<11520, 11557>>, <<11559, 11559>>,
      <<11565, 11565>>, <<42560, 42605>>, <<42624, 42651>>, <<42786, 42863>>,
      <<42865, 42887>>, <<42891, 42894>>, <<42896, 42954>>, <<42960, 42961>>,
      <<42963, 42963>>, <<42965, 42969>>, <<42997, 42998>>, <<43002, 43002>>,
      <<43824, 43866>>, <<43872, 43880>>, <<43888, 43967>>, <<64256, 64262>>,
      <<64275, 64279>>, <<65313, 65338>>, <<65345, 65370>>, <<66560, 66639>>,
      <<66736, 66771>>, <<66776, 66811>>, <<66928, 66938>>, <<66940, 66954>>,
      <<66956, 66962>>, <<66964, 66965>>, <<66967, 66977>>, <<66979, 66993>>,
      <<66995, 67001>>, <<67003, 67004>>, <<68736, 68786>>, <<68800, 68850>>,
      <<71840, 71903>>, <<93760, 93823>>, <<119808, 119892>>, <<119894, 119964>>,
      <<119966, 119967>>, <<119970, 119970>>, <<119973, 119974>>, <<119977, 119980>>,
      <<119982, 119993>>, <<119995, 119995>>, <<119997, 120003>>, <<120005, 120069>>,
      <<120071, 120074>>, <<120077, 120084>>, <<120086, 120092>>, <<120094, 120121>>,
      <<120123, 120126>>, <<120128, 120132>>, <<120134, 120134>>, <<120138, 120144>>,
      <<120146, 120485>>, <<120488, 120512>>, <<120514, 120538>>, <<120540, 120570>>,
      <<120572, 120596>>, <<120598, 120628>>, <<120630, 120654>>, <<120656, 120686>>,
      <<120688, 120712>>, <<120714, 120744>>, <<120746, 120770>>, <<120772, 120779>>,
      <<122624, 122633>>, <<122635, 122654>>, <<125184, 125251>>, <<127280, 127305>>,
      <<127312, 127337>>, <<127344, 127369>>}

\* the case-ignorable characters, as ranges
CaseIgnorableRanges ==
    {<<39, 39>>, <<46, 46>>, <<58, 58>>, <<94, 94>>, <<96, 96>>, <<168, 168>>,
      <<173, 173>>, <<175, 175>>, <<180, 180>>, <<183, 184>>, <<688, 879>>,
      <<884, 885>>, <<890, 890>>, <<900, 901>>, <<903, 903>>, <<1155, 1161>>,
      <<1369, 1369>>, <<1375, 1375>>, <<1425, 1469>>, <<1471, 1471>>, <<1473, 1474>>,
      <<1476, 1477>>, <<1479, 1479>>, <<1524, 1524>>, <<1536, 1541>>, <<1552, 1562>>,
      <<1564, 1564>>, <<1600, 1600>>, <<1611, 1631>>, <<1648, 1648>>, <<1750, 1757>>,
      <<1759, 1768>>, <<1770, 1773>>, <<1807, 1807>>, <<1809, 1809>>, <<1840, 1866>>,
      <<1958, 1968>>, <<2027, 2037>>, <<2042, 2042>>, <<2045, 2045>>, <<2070, 2093>>,
      <<2137, 2139>>, <<2184, 2184>>, <<2192, 2193>>, <<2200, 2207>>, <<2249, 2306>>,
      <<2362, 2362>>, <<2364, 2364>>, <<2369, 2376>>, <<2381, 2381>>, <<2385, 2391>>,
      <<2402, 2403>>, <<2417, 2417>>, <<2433, 2433>>, <<2492, 2492>>, <<2497, 2500>>,
      <<2509, 2509>>, <<2530, 2531>>, <<2558, 2558>>, <<2561, 2562>>, <<2620, 2620>>,
      <<2625, 2626>>, <<2631, 2632>>, <<2635, 2637>>, <<2641, 2641>>, <<2672, 2673>>,
      <<2677, 2677>>, <<2689, 2690>>, <<2748, 2748>>, <<2753, 2757>>, <<2759, 2760>>,
      <<2765, 2765>>, <<2786, 2787>>, <<2810, 2815>>, <<2817, 2817>>, <<2876, 2876>>,
      <<2879, 2879>>, <<2881, 2884>>, <<2893, 2893>>, <<2901, 2902>>, <<2914, 2915>>,
      <<2946, 2946>>, <<3008, 3008>>, <<3021, 3021>>, <<3072, 3072>>, <<3076, 3076>>,
      <<3132, 3132>>, <<3134, 3136>>, <<3142, 3144>>, <<3146, 3149>>, <<3157, 3158>>,
      <<3170, 3171>>, <<3201, 3201>>, <<3260, 3260>>, <<3263, 3263>>, <<3270, 3270>>,
      <<3276, 3277>>, <<3298, 3299>>, <<3328, 3329>>, <<3387, 3388>>, <<3393, 3396>>,
      <<3405, 3405>>, <<3426, 3427>>, <<3457, 3457>>, <<3530, 3530>>, <<3538, 3540>>,
      <<3542, 3542>>, <<3633, 3633>>, <<3636, 3642>>, <<3654, 3662>>, <<3761, 3761>>,
      <<3764, 3772>>, <<3782, 3782>>, <<3784, 3789>>, <<3864, 3865>>, <<3893, 3893>>,
      <<3895, 3895>>, <<3897, 3897>>, <<3953, 3966>>, <<3968, 3972>>, <<3974, 3975>>,
      <<3981, 3991>>, <<3993, 4028>>, <<4038, 4038>>, <<4141, 4144>>, <<4146, 4151>>,
      <<4153, 4154>>, <<4157, 4158>>, <<4184, 4185>>, <<4190, 4192>>, <<4209, 4212>>,
      <<4226, 4226>>, <<4229, 4230>>, <<4237, 4237>>, <<4253, 4253>>, <<4348, 4348>>,
      <<4957, 4959>>, <<5906, 5908>>, <<5938, 5939>>, <<5970, 5971>>, <<6002, 6003>>,
      <<6068, 6069>>, <<6071, 6077>>, <<6086, 6086>>, <<6089, 6099>>, <<6103, 6103>>,
      <<6109, 6109>>, <<6155, 6159>>, <<6211, 6211>>, <<6277, 6278>>, <<6313, 6313>>,
      <<6432, 6434>>, <<6439, 6440>>, <<6450, 6450>>, <<6457, 6459>>, <<6679, 6680>>,
      <<6683, 6683>>, <<6742, 6742>>, <<6744, 6750>>, <<6752, 6752>>, <<6754, 6754>>,
      <<6757, 6764>>, <<6771, 6780>>, <<6783, 6783>>, <<6823, 6823>>, <<6832, 6862>>,
      <<6912, 6915>>, <<6964, 6964>>, <<6966, 6970>>, <<6972, 6972>>, <<6978, 6978>>,
      <<7019, 7027>>, <<7040, 7041>>, <<7074, 7077>>, <<7080, 7081>>, <<7083, 7085>>,
      <<7142, 7142>>, <<7144, 7145>>, <<7149, 7149>>, <<7151, 7153>>, <<7212, 7219>>,
      <<7222, 7223>>, <<7288, 7293>>, <<7376, 7378>>, <<7380, 7392>>, <<7394, 7400>>,
      <<7405, 7405>>, <<7412, 7412>>, <<7416, 7417>>, <<7468, 7530>>, <<7544, 7544>>,
      <<7579, 7679>>, <<8125, 8125>>, <<8127, 8129>>, <<8141, 8143>>, <<8157, 8159>>,
      <<8173, 8175>>, <<8189, 8190>>, <<8203, 8207>>, <<8216, 8217>>, <<8228, 8228>>,
      <<8231, 8231>>, <<8234, 8238>>, <<8288, 8292>>, <<8294, 8303>>, <<8305, 8305>>,
      <<8319, 8319>>, <<8336, 8348>>, <<8400, 8432>>, <<11388, 11389>>,
      <<11503, 11505>>, <<11631, 11631>>, <<11647, 11647>>, <<11744, 11775>>,
      <<11823, 11823>>, <<12293, 12293>>, <<12330, 12333>>, <<12337, 12341>>,
      <<12347, 12347>>, <<12441, 12446>>, <<12540, 12542>>, <<40981, 40981>>,
      <<42232, 42237>>, <<42508, 42508>>, <<42607, 42610>>, <<42612, 42621>>,
      <<42623, 42623>>, <<42652, 42655>>, <<42736, 42737>>, <<42752, 42785>>,
      <<42864, 42864>>, <<42888, 42890>>, <<42994, 42996>>, <<43000, 43001>>,
      <<43010, 43010>>, <<43014, 43014>>, <<43019, 43019>>, <<43045, 43046>>,
      <<43052, 43052>>, <<43204, 43205>>, <<43232, 43249>>, <<43263, 43263>>,
      <<43302, 43309>>, <<43335, 43345>>, <<43392, 43394>>, <<43443, 43443>>,
      <<43446, 43449>>, <<43452, 43453>>, <<43471, 43471>>, <<43493, 43494>>,
      <<43561, 43566>>, <<43569, 43570>>, <<43573, 43574>>, <<43587, 43587>>,
      <<43596, 43596>>, <<43632, 43632>>, <<43644, 43644>>, <<43696, 43696>>,
      <<43698, 43700>>, <<43703, 43704>>, <<43710, 43711>>, <<43713, 43713>>,
      <<43741, 43741>>, <<43756, 43757>>, <<43763, 43764>>, <<43766, 43766>>,
      <<43867, 43871>>, <<43881, 43883>>, <<44005, 44005>>, <<44008, 44008>>,
      <<44013, 44013>>, <<64286, 64286>>, <<64434, 64450>>, <<65024, 65039>>,
      <<65043, 65043>>, <<65056, 65071>>, <<65106, 65106>>, <<65109, 65109>>,
      <<65279, 65279>>, <<65287, 65287>>, <<65294, 65294>>, <<65306, 65306>>,
      <<65342, 65342>>, <<65344, 65344>>, <<65392, 65392>>, <<65438, 65439>>,
      <<65507, 65507>>, <<65529, 65531>>, <<66045, 66045>>, <<66272, 66272>>,
      <<66422, 66426>>, <<67456, 67461>>, <<67463, 67504>>, <<67506, 67514>>,
      <<68097, 68099>>, <<68101, 68102>>, <<68108, 68111>>, <<68152, 68154>>,
      <<68159, 68159>>, <<68325, 68326>>, <<68900, 68903>>, <<69291, 69292>>,
      <<69446, 69456>>, <<69506, 69509>>, <<69633, 69633>>, <<69688, 69702>>,
      <<69744, 69744>>, <<69747, 69748>>, <<69759, 69761>>, <<69811, 69814>>,
      <<69817, 69818>>, <<69821, 69821>>, <<69826, 69826>>, <<69837, 69837>>,
      <<69888, 69890>>, <<69927, 69931>>, <<69933, 69940>>, <<70003, 70003>>,
      <<70016, 70017>>, <<70070, 70078>>, <<70089, 70092>>, <<70095, 70095>>,
      <<70191, 70193>>, <<70196, 70196>>, <<70198, 70199>>, <<70206, 70206>>,
      <<70367, 70367>>, <<70371, 70378>>, <<70400, 70401>>, <<70459, 70460>>,
      <<70464, 70464>>, <<70502, 70508>>, <<70512, 70516>>, <<70712, 70719>>,
      <<70722, 70724>>, <<70726, 70726>>, <<70750, 70750>>, <<70835, 70840>>,
      <<70842, 70842>>, <<70847, 70848>>, <<70850, 70851>>, <<71090, 71093>>,
      <<71100, 71101>>, <<71103, 71104>>, <<71132, 71133>>, <<71219, 71226>>,
      <<71229, 71229>>, <<71231, 71232>>, <<71339, 71339>>, <<71341, 71341>>,
      <<71344, 71349>>, <<71351, 71351>>, <<71453, 71455>>, <<71458, 71461>>,
      <<71463, 71467>>, <<71727, 71735>>, <<71737, 71738>>, <<71995, 71996>>,
      <<71998, 71998>>, <<72003, 72003>>, <<72148, 72151>>, <<72154, 72155>>,
      <<72160, 72160>>, <<72193, 72202>>, <<72243, 72248>>, <<72251, 72254>>,
      <<72263, 72263>>, <<72273, 72278>>, <<72281, 72283>>, <<72330, 72342>>,
      <<72344, 72345>>, <<72752, 72758>>, <<72760, 72765>>, <<72767, 72767>>,
      <<72850, 72871>>, <<72874, 72880>>, <<72882, 72883>>, <<72885, 72886>>,
      <<73009, 73014>>, <<73018, 73018>>, <<73020, 73021>>, <<73023, 73029>>,
      <<73031, 73031>>, <<73104, 73105>>, <<73109, 73109>>, <<73111, 73111>>,
      <<73459, 73460>>, <<78896, 78904>>, <<92912, 92916>>, <<92976, 92982>>,
      <<92992, 92995>>, <<94031, 94031>>, <<94095, 94111>>, <<94176, 94177>>,
      <<94179, 94180>>, <<110576, 110579>>, <<110581, 110587>>, <<110589, 110590>>,
      <<113821, 113822>>, <<113824, 113827>>, <<118528, 118573>>, <<118576, 118598>>,
      <<119143, 119145>>, <<119155, 119170>>, <<119173, 119179>>, <<119210, 119213>>,
      <<119362, 119364>>, <<121344, 121398>>, <<121403, 121452>>, <<121461, 121461>>,
      <<121476, 121476>>, <<121499, 121503>>, <<121505, 121519>>, <<122880, 122886>>,
      <<122888, 122904>>, <<122907, 122913>>, <<122915, 122916>>, <<122918, 122922>>,
      <<123184, 123197>>, <<123566, 123566>>, <<123628, 123631>>, <<125136, 125142>>,
      <<125252, 125259>>, <<127995, 127999>>, <<917505, 917505>>, <<917536, 917631>>,
      <<917760, 917999>>}

InRanges(c, ranges) == \E r \in ranges : r[1] <= c /\ c <= r[2]

\* whether the capital sigma at s[i] is in the Final_Sigma context: the nearest
\* character before it that is not case-ignorable is cased, and the nearest after
\* it, if any, is not
FinalSigma(s, i) ==
    LET before == {j \in 1..(i - 1) : ~InRanges(s[j], CaseIgnorableRanges)}
        after == {j \in (i + 1)..Len(s) : ~InRanges(s[j], CaseIgnorableRanges)}
    IN  /\ before # {}
        /\ InRanges(s[CHOOSE j \in before : \A k \in before : k <= j], CasedRanges)
        /\ \/ after = {}
           \/ ~InRanges(s[CHOOSE j \in after : \A k \in after : j <= k], CasedRanges)

\* what str.lower() puts in the place of the character s[i]
LowerChar(s, i) ==
    LET c == s[i]
        runs == {r \in LowerRuns : r[1] <= c /\ c <= r[2] /\ (c - r[1]) % r[3] = 0}
    IN  IF c < 128 THEN (IF c \in 65..90 THEN <<c + 32>> ELSE <<c>>)
        ELSE IF c = 304 THEN <<105, 775>>
        ELSE IF c = 931 THEN (IF FinalSigma(s, i) THEN <<962>> ELSE <<963>>)
        ELSE IF runs = {} THEN <<c>>
        ELSE <<c + (CHOOSE r \in runs : TRUE)[4]>>

RECURSIVE LowerFrom(_, _)
LowerFrom(s, i) == IF i > Len(s) THEN <<>> ELSE LowerChar(s, i) \o LowerFrom(s, i + 1)

\* str.lower()
Lower(s) == LowerFrom(s, 1)

\* str.strip(): drop the leading and trailing whitespace
Strip(s) ==
    LET keep == {i \in 1..Len(s) : s[i] \notin Whitespace}
    IN  IF keep = {} THEN <<>>
        ELSE LET lo == CHOOSE i \in keep : \A j \in keep : i <= j
                 hi == CHOOSE i \in keep : \A j \in keep : i >= j
             IN  SubSeq(s, lo, hi)

\* re.sub(r"\s+", " ", s): every maximal run of whitespace becomes one space
RECURSIVE CollapseWs(_)
CollapseWs(s) ==
    IF s = <<>> THEN <<>>
    ELSE IF s[1] \in Whitespace
         THEN IF Len(s) >= 2 /\ s[2] \in Whitespace
              THEN CollapseWs(Tail(s))
              ELSE <<32>> \o CollapseWs(Tail(s))
         ELSE <<s[1]>> \o CollapseWs(Tail(s))

normalized(text) == CollapseWs(Lower(Strip(text)))

\* Python's `a in b` on strings
IsSubstring(a, b) ==
    \E i \in 0..(Len(b) - Len(a)) : SubSeq(b, i + 1, i + Len(a)) = a

\* the last index of the run of non-whitespace characters that starts at i
RECURSIVE TokenEnd(_, _)
TokenEnd(s, i) ==
    IF i + 1 > Len(s) \/ s[i + 1] \in Whitespace THEN i ELSE TokenEnd(s, i + 1)

\* the tokens of s.split() from position i on
RECURSIVE SplitFrom(_, _)
SplitFrom(s, i) ==
    IF i > Len(s) THEN {}
    ELSE IF s[i] \in Whitespace THEN SplitFrom(s, i + 1)
    ELSE {SubSeq(s, i, TokenEnd(s, i))} \cup SplitFrom(s, TokenEnd(s, i) + 1)

\* set(s.split()): the maximal runs of non-whitespace characters
Tokens(s) == SplitFrom(s, 1)

---------------------------------------------------------------------------
(* Floats as reduced fractions. *)

RECURSIVE Gcd(_, _)
Gcd(a, b) == IF b = 0 THEN a ELSE Gcd(b, a % b)

Frac(n, d) == LET g == Gcd(n, d) IN [num |-> n \div g, den |-> d \div g]

Zero == Frac(0, 1)
\* the fixed score of a substring match
SubstringScore == Frac(9, 10)
\* the score below which a matched line gets a "Low confidence" note
ReviewThreshold == Frac(1, 2)
\* the provisional confidence of the fallback line
FallbackConfidence == Frac(1, 10)

FLess(a, b) == a.num * b.den < b.num * a.den
FLeq(a, b) == a.num * b.den <= b.num * a.den

\* the fractions n/8, n/40 and n/200 of [0, 1], whose hundredths end in a half, that
\* round(x, 2) and f"{x:.2f}" round up: they round the double nearest the fraction,
\* which lies above the half for these or is the half with an odd hundredth below it
TiesRoundedUp ==
    {<<3, 8>>, <<7, 8>>, <<1, 40>>, <<9, 40>>, <<11, 40>>, <<13, 40>>, <<21, 40>>,
      <<27, 40>>, <<31, 40>>, <<37, 40>>, <<1, 200>>, <<7, 200>>, <<11, 200>>,
      <<13, 200>>, <<17, 200>>, <<19, 200>>, <<23, 200>>, <<27, 200>>, <<33, 200>>,
      <<39, 200>>, <<51, 200>>, <<53, 200>>, <<63, 200>>, <<67, 200>>, <<77, 200>>,
      <<79, 200>>, <<81, 200>>, <<89, 200>>, <<91, 200>>, <<93, 200>>, <<101, 200>>,
      <<103, 200>>, <<107, 200>>, <<109, 200>>, <<111, 200>>, <<127, 200>>,
      <<129, 200>>, <<131, 200>>, <<133, 200>>, <<137, 200>>, <<151, 200>>,
      <<153, 200>>, <<157, 200>>, <<159, 200>>, <<161, 200>>, <<177, 200>>,
      <<179, 200>>, <<181, 200>>, <<183, 200>>, <<187, 200>>}

\* f"{x:.2f}" and round(x, 2) on a score x of [0, 1], as a number of hundredths; off
\* a tie the double and the fraction round alike
Round2(x) ==
    LET q == (100 * x.num) \div x.den
        r == (100 * x.num) % x.den
    IN  IF 2 * r > x.den \/ (2 * r = x.den /\ <<x.num, x.den>> \in TiesRoundedUp)
        THEN q + 1 ELSE q

---------------------------------------------------------------------------
(* SKUMatcher. *)

\* SKUMatcher._token_overlap with & and | exchanged
TokenOverlapSwapped(a, b) ==
    LET a_tokens == Tokens(a)
        b_tokens == Tokens(b)
    IN  IF a_tokens = {} \/ b_tokens = {} \/ a_tokens \cap b_tokens = {} THEN Zero
        ELSE Frac(Cardinality(a_tokens \cup b_tokens), Cardinality(a_tokens \cap b_tokens))

\* SKUMatcher._token_overlap: the Jaccard similarity of the two token sets
TokenOverlap(a, b) ==
    LET a_tokens == Tokens(a)
        b_tokens == Tokens(b)
    IN  IF a_tokens = {} \/ b_tokens = {} THEN Zero
        ELSE Frac(Cardinality(a_tokens \cap b_tokens), Cardinality(a_tokens \cup b_tokens))

\* the score of one alias: the body of the inner loop up to the comparison
AliasScore(alias, text) ==
    LET alias_norm == normalized(alias)
    IN  IF IsSubstring(alias_norm, text) \/ IsSubstring(text, alias_norm)
        THEN SubstringScore
        ELSE TokenOverlap(alias_norm, text)

\* candidates = [item["name"], *item.get("synonyms", [])]
Candidates(item) == <<item.name>> \o item.synonyms

\* the comparison `score >= best_score`
BetterOrEqual(score, best_score) == FLeq(best_score, score)

\* the comparison `score > best_score`
Better(score, best_score) == FLess(best_score, score)

\* the inner loop over the aliases of one item, from alias k on
RECURSIVE MatchAliases(_, _, _, _, _)
MatchAliases(text, sku_id, aliases, k, best) ==
    IF k > Len(aliases) THEN best
    ELSE LET score == AliasScore(aliases[k], text)
         IN  MatchAliases(text, sku_id, aliases, k + 1,
                 IF Better(score, best.score)
                 THEN [sku |-> <<sku_id>>, score |-> score]
                 ELSE best)

\* the outer loop over the catalog, from item i on
RECURSIVE MatchItems(_, _, _, _)
MatchItems(text, cat, i, best) ==
    IF i > Len(cat) THEN best
    ELSE MatchItems(text, cat, i + 1,
             MatchAliases(text, cat[i].sku_id, Candidates(cat[i]), 1, best))

\* SKUMatcher.match: (best_sku, best_score)
Match(description, cat) ==
    MatchItems(normalized(description), cat, 1, [sku |-> <<>>, score |-> Zero])

---------------------------------------------------------------------------
(* Line extraction. *)

OrderLine(description, qty, conf) ==
    [source_description |-> description, quantity |-> qty, matched_sku |-> <<>>,
     normalized_description |-> <<>>, confidence |-> conf]

\* the last index of the run of characters of class C that starts at i (i - 1: no run)
RunEnd(s, i, C) ==
    LET stops == {k \in i..Len(s) : s[k] \notin C}
    IN  IF stops = {} THEN Len(s)
        ELSE (CHOOSE k \in stops : \A j \in stops : k <= j) - 1

\* The match of (?P<qty>\d+)x?\s+(?P<item>[A-Za-z0-9 \-\."']+) that starts at i, as
\* <<[qty_lo, qty_hi, item_lo, item_hi]>>, or <<>>.  \d+ and x? are greedy and giving
\* back a digit or the x never helps (what follows is then a digit or an x, not
\* whitespace); \s+ is greedy and gives back whitespace until an item character
\* follows, which after the first step back can only be a space it gave back.
MatchAt(s, i) ==
    LET dEnd == RunEnd(s, i, Digit)
        xEnd == IF dEnd + 1 <= Len(s) /\ s[dEnd + 1] = 120 THEN dEnd + 1 ELSE dEnd
        wEnd == RunEnd(s, xEnd + 1, Whitespace)
        stops == {k \in (xEnd + 1)..wEnd : k + 1 <= Len(s) /\ s[k + 1] \in ItemChar}
    IN  IF dEnd < i \/ stops = {} THEN <<>>
        ELSE LET k == CHOOSE x \in stops : \A y \in stops : y <= x
             IN  <<[qty_lo |-> i, qty_hi |-> dEnd,
                    item_lo |-> k + 1, item_hi |-> RunEnd(s, k + 1, ItemChar)]>>

\* the loop over pattern.finditer(message) from position pos on: the lines of the
\* non-overlapping matches, left to right, unless int() raises on a quantity
RECURSIVE FindIter(_, _)
FindIter(s, pos) ==
    IF pos > Len(s) THEN Return(<<>>)
    ELSE LET m == MatchAt(s, pos)
         IN  IF m = <<>> THEN FindIter(s, pos + 1)
             ELSE LET qty == ParseInt(SubSeq(s, m[1].qty_lo, m[1].qty_hi))
                      item == Strip(SubSeq(s, m[1].item_lo, m[1].item_hi))
                  IN  IF qty.exception # "None" THEN Raise(qty.exception)
                      ELSE LET rest == FindIter(s, m[1].item_hi + 1)
                           IN  IF rest.exception # "None" THEN rest
                               ELSE Return(<<OrderLine(item, qty.value, Zero)>>
                                               \o rest.value)

\* QuickWinPipeline._extract_lines
ExtractLines(message) ==
    LET found == FindIter(message, 1)
    IN  IF found.exception # "None" THEN found
        ELSE IF found.value = <<>>
        THEN Return(<<OrderLine(Strip(message), <<1>>, FallbackConfidence)>>)
        ELSE found

---------------------------------------------------------------------------
(* The inputs of the model. *)

\* The catalog the pipeline is constructed with.  load_catalog reads it from
\* data/master_products.json, a file the sources do not include: this is an input of
\* the shape the matcher reads (sku_id, name, synonyms), not the repository's data.
\*   SKU-PVC-2: "PVC Pipe 2in"; "pvc pipe", "2\" pvc"
\*   SKU-CU-15: "Copper Cable 1.5mm"; "copper cable 1.5", "1.5mm wire"
\*   SKU-SW-8P: "8 Port Switch"; "8p switch"
SampleCatalog ==
    << [sku_id |-> "SKU-PVC-2",
        name |-> <<80, 86, 67, 32, 80, 105, 112, 101, 32, 50, 105, 110>>,
        synonyms |-> << <<112, 118, 99, 32, 112, 105, 112, 101>>,
                        <<50, 34, 32, 112, 118, 99>> >>],
       [sku_id |-> "SKU-CU-15",
        name |-> <<67, 111, 112, 112, 101, 114, 32, 67, 97, 98, 108, 101, 32,
                   49, 46, 53, 109, 109>>,
        synonyms |-> << <<99, 111, 112, 112, 101, 114, 32, 99, 97, 98, 108, 101,
                          32, 49, 46, 53>>,
                        <<49, 46, 53, 109, 109, 32, 119, 105, 114, 101>> >>],
       [sku_id |-> "SKU-SW-8P",
        name |-> <<56, 32, 80, 111, 114, 116, 32, 83, 119, 105, 116, 99, 104>>,
        synonyms |-> << <<56, 112, 32, 115, 119, 105, 116, 99, 104>> >>] >>

\* a catalog whose only item has the empty string as its sku_id:
\*   "": "pvc pipe"
EmptySkuCatalog ==
    << [sku_id |-> "",
        name |-> <<112, 118, 99, 32, 112, 105, 112, 101>>,
        synonyms |-> <<>>] >>

\* the catalogs a pipeline is constructed with
PipelineCatalogs == {SampleCatalog, EmptySkuCatalog}

AcmeSteel == <<65, 99, 109, 101, 32, 83, 116, 101, 101, 108>>
BrightEnergy == <<66, 114, 105, 103, 104, 116, 32, 69, 110, 101, 114, 103, 121>>

\* "Need 2x PVC pipe 2in and 5 copper cable 1.5 for Monday"
DemoMessage1 ==
    <<78, 101, 101, 100, 32, 50, 120, 32, 80, 86, 67, 32, 112, 105, 112, 101,
      32, 50, 105, 110, 32, 97, 110, 100, 32, 53, 32, 99, 111, 112, 112, 101,
      114, 32, 99, 97, 98, 108, 101, 32, 49, 46, 53, 32, 102, 111, 114, 32,
      77, 111, 110, 100, 97, 121>>

\* "Order: 3 pcs 8p switch, 50m 1.5mm wire"
DemoMessage2 ==
    <<79, 114, 100, 101, 114, 58, 32, 51, 32, 112, 99, 115, 32, 56, 112, 32,
      115, 119, 105, 116, 99, 104, 44, 32, 53, 48, 109, 32, 49, 46, 53, 109,
      109, 32, 119, 105, 114, 101>>

\* "repeat last order of 2\" pvc"
DemoMessage3 ==
    <<114, 101, 112, 101, 97, 116, 32, 108, 97, 115, 116, 32, 111, 114, 100, 101,
      114, 32, 111, 102, 32, 50, 34, 32, 112, 118, 99>>

\* "2 blue pipe, 3 xyz, 1 pvc pipe"
ThreeLineMessage ==
    <<50, 32, 98, 108, 117, 101, 32, 112, 105, 112, 101, 44, 32, 51, 32, 120,
      121, 122, 44, 32, 49, 32, 112, 118, 99, 32, 112, 105, 112, 101>>

\* '1' * (IntMaxStrDigits + 1) + ' a': a quantity of one digit more than int() converts
OverLimitMessage == [i \in 1..(IntMaxStrDigits + 1) |-> 49] \o <<32, 97>>

\* "\u0663\xa0PVC\x0bpipe": an Arabic-Indic three, a no-break space, a vertical tab
UnicodeMessage == <<1635, 160, 80, 86, 67, 11, 112, 105, 112, 101>>

\* demo_messages(), and further payloads: one message on two channels, two
\* (customer, message) pairs with the same "{customer}-{message}", a zero quantity,
\* an empty message, a message of three lines, a message that matches nothing, a
\* message with a digit and whitespace outside ASCII, a message with a quantity too
\* long for int(), and a message with a lone surrogate (U+D800)
Payloads ==
    { [customer |-> AcmeSteel, channel |-> "LINE OA", message |-> DemoMessage1],
      [customer |-> BrightEnergy, channel |-> "Email", message |-> DemoMessage2],
      [customer |-> AcmeSteel, channel |-> "LINE OA", message |-> DemoMessage3],
      [customer |-> AcmeSteel, channel |-> "Email", message |-> DemoMessage3],
      [customer |-> <<65, 45, 66>>, channel |-> "Email",
       message |-> <<50, 32, 112, 118, 99>>],
      [customer |-> <<65>>, channel |-> "LINE OA",
       message |-> <<66, 45, 50, 32, 112, 118, 99>>],
      [customer |-> <<65>>, channel |-> "Email",
       message |-> <<48, 32, 112, 118, 99>>],
      [customer |-> <<65>>, channel |-> "Email", message |-> <<>>],
      [customer |-> <<65>>, channel |-> "Email", message |-> ThreeLineMessage],
      [customer |-> <<65>>, channel |-> "Email",
       message |-> <<104, 101, 108, 108, 111>>],
      [customer |-> <<65>>, channel |-> "Email", message |-> UnicodeMessage],
      [customer |-> <<65>>, channel |-> "Email", message |-> OverLimitMessage],
      [customer |-> <<65>>, channel |-> "Email", message |-> <<50, 32, 55296>>] }

\* hashlib.sha1(s.encode()).hexdigest()[:8] on the strings the payloads hash
Sha1Table ==
    { << AcmeSteel \o <<45>> \o DemoMessage1, "da4c9659" >>,
      << BrightEnergy \o <<45>> \o DemoMessage2, "28dc1770" >>,
      << AcmeSteel \o <<45>> \o DemoMessage3, "88b864e2" >>,
      << <<65, 45, 66, 45, 50, 32, 112, 118, 99>>, "a1aa0a77" >>,
      << <<65, 45, 48, 32, 112, 118, 99>>, "59b78dd1" >>,
      << <<65, 45>>, "1a6a3baa" >>,
      << <<65, 45>> \o ThreeLineMessage, "57545c71" >>,
      << <<65, 45, 104, 101, 108, 108, 111>>, "7489386f" >>,
      << <<65, 45>> \o UnicodeMessage, "bf37c7dc" >>,
      << <<65, 45>> \o OverLimitMessage, "0b03b030" >> }

\* the code points str.encode() cannot encode: the surrogates
Surrogate == 55296..57343

\* hashlib.sha1(s.encode()).hexdigest()[:8]; encode() raises on a surrogate
Sha1Hex8(s) ==
    IF \E i \in 1..Len(s) : s[i] \in Surrogate THEN Raise("UnicodeEncodeError")
    ELSE Return((CHOOSE e \in Sha1Table : e[1] = s)[2])

\* the characters of the enumerated messages
\* '2', '0', 'x', 'a', ' ', '\t', ',', U+0663 (a digit), '\x0b' (whitespace)
MessageAlphabet == {50, 48, 120, 97, 32, 9, 44, 1635, 11}

\* the messages given to _extract_lines: every message over MessageAlphabet of at
\* most MaxMsgLen characters, and the messages of the payloads
ExtractInputs ==
    UNION {[1..n -> MessageAlphabet] : n \in 0..MaxMsgLen}
        \cup {p.message : p \in Payloads}

\* the names and synonyms of the enumerated catalogs:
\* "PVC  Pipe", "pipe pvc", "Copper\xa0C\xc2BLE", "c\xe2ble"
AliasPool ==
    { <<80, 86, 67, 32, 32, 80, 105, 112, 101>>,
      <<112, 105, 112, 101, 32, 112, 118, 99>>,
      <<67, 111, 112, 112, 101, 114, 160, 67, 194, 66, 76, 69>>,
      <<99, 226, 98, 108, 101>> }

\* the descriptions given to SKUMatcher.match:
\* "pvc pipe", "\xa0Pipe\x0bPVC\x85", "copper pipe", "xyz", ""
Descriptions ==
    { <<112, 118, 99, 32, 112, 105, 112, 101>>,
      <<160, 80, 105, 112, 101, 11, 80, 86, 67, 133>>,
      <<99, 111, 112, 112, 101, 114, 32, 112, 105, 112, 101>>,
      <<120, 121, 122>>,
      <<>> }

SkuIds == <<"SKU-1", "SKU-2", "SKU-3", "SKU-4">>

\* the catalogs given to SKUMatcher.match: at most MaxItems items, item i with the
\* i-th sku_id, a name and at most one synonym from AliasPool
Catalogs ==
    LET Shapes == [name : AliasPool, synonyms : {<<>>} \cup {<<a>> : a \in AliasPool}]
    IN  UNION { { [i \in 1..n |-> [sku_id |-> SkuIds[i], name |-> c[i].name,
                                   synonyms |-> c[i].synonyms]] : c \in [1..n -> Shapes] }
                : n \in 0..MaxItems }

---------------------------------------------------------------------------
(* QuickWinPipeline. *)

\* QuickWinPipeline._generate_id
GenerateId(message, customer) ==
    LET digest == Sha1Hex8(customer \o <<45>> \o message)
    IN  IF digest.exception # "None" THEN digest ELSE Return("REQ-" \o digest.value)

\* GoldenRecord(request_id=..., customer=..., channel=..., status=...)
GoldenRecord(request_id, customer, channel, status) ==
    [request_id |-> request_id, customer |-> customer, channel |-> channel,
     status |-> status, lines |-> <<>>, validation_notes |-> <<>>]

\* `not sku`: None and the empty string are falsy
Falsy(sku) == sku = <<>> \/ sku = <<"">>

\* the first three statements of the loop body, with the confidence left alone
\* when the matcher scores 0.0
MatchLineKeepSentinel(line, cat) ==
    LET m == Match(line.source_description, cat)
    IN  [line EXCEPT !.matched_sku = m.sku,
                     !.confidence = IF m.score = Zero THEN @ ELSE m.score,
                     !.normalized_description = <<normalized(line.source_description)>>]

\* the first three statements of the loop body of _match_and_validate
MatchLine(line, cat) ==
    LET m == Match(line.source_description, cat)
    IN  [line EXCEPT !.matched_sku = m.sku,
                     !.confidence = m.score,
                     !.normalized_description = <<normalized(line.source_description)>>]

\* f"No SKU match for '{line.source_description}' (qty {line.quantity})"
NoMatchNote(line) ==
    [kind |-> "No SKU match", description |-> line.source_description,
     detail |-> <<line.quantity>>]

\* f"Low confidence ({score:.2f}) match for '{line.source_description}' -> {sku}"
LowConfidenceNote(line) ==
    [kind |-> "Low confidence", description |-> line.source_description,
     detail |-> <<Round2(line.confidence), line.matched_sku>>]

\* the notes the loop body appends for one matched line
LineNotes(line) ==
    IF Falsy(line.matched_sku) THEN <<NoMatchNote(line)>>
    ELSE IF FLess(line.confidence, ReviewThreshold) THEN <<LowConfidenceNote(line)>>
    ELSE <<>>

\* the last statement of _match_and_validate with the `not` left out
FinalStatusInverted(notes) == IF notes # <<>> THEN "validated" ELSE "needs_review"

\* "validated" if not record.validation_notes else "needs_review"
FinalStatus(notes) == IF notes = <<>> THEN "validated" ELSE "needs_review"

RECURSIVE AllNotes(_, _)
AllNotes(lines, i) ==
    IF i > Len(lines) THEN <<>> ELSE LineNotes(lines[i]) \o AllNotes(lines, i + 1)

\* QuickWinPipeline._match_and_validate: the record after the call
MatchAndValidate(record, cat) ==
    LET lines == [i \in 1..Len(record.lines) |-> MatchLine(record.lines[i], cat)]
        notes == record.validation_notes \o AllNotes(lines, 1)
    IN  [record EXCEPT !.lines = lines, !.validation_notes = notes,
                       !.status = FinalStatus(notes)]

\* GoldenRecord.summary
Summary(rec) ==
    [request_id |-> rec.request_id, customer |-> rec.customer, channel |-> rec.channel,
     status |-> rec.status,
     lines |-> [i \in 1..Len(rec.lines) |->
                  [source_description |-> rec.lines[i].source_description,
                   quantity |-> rec.lines[i].quantity,
                   matched_sku |-> rec.lines[i].matched_sku,
                   confidence |-> Round2(rec.lines[i].confidence)]],
     validation_notes |-> rec.validation_notes]

\* self.register[key] = ref: a dict keeps the place of a key it already holds
RegisterPut(reg, key, ref) ==
    IF \E i \in DOMAIN reg : reg[i].key = key
    THEN [i \in DOMAIN reg |-> IF reg[i].key = key THEN [key |-> key, ref |-> ref]
                               ELSE reg[i]]
    ELSE Append(reg, [key |-> key, ref |-> ref])

NoCall == [active |-> FALSE]

\* the ingest call in progress, and the entry of a call that raised
Call(p, request_id, ref) ==
    [active |-> TRUE, message |-> p.message, customer |-> p.customer,
     channel |-> p.channel, request_id |-> request_id, record |-> ref]

Raised(p, exception) ==
    [message |-> p.message, customer |-> p.customer, channel |-> p.channel,
     exception |-> exception]

\* ingest, with the record of the register reused when the id is already there
IngestCreateReuse(p) ==
    /\ pc = "idle"
    /\ Len(calls) + Len(raised) < MaxIngests
    /\ LET id == GenerateId(p.message, p.customer)
           fresh == GoldenRecord(id.value, p.customer, p.channel, "received")
           old == {i \in DOMAIN register : register[i].key = id.value}
       IN  IF id.exception # "None"
           THEN /\ raised' = Append(raised, Raised(p, id.exception))
                /\ UNCHANGED <<heap, cur, pc>>
           ELSE IF old = {}
           THEN /\ heap' = Append(heap, fresh)
                /\ cur' = Call(p, id.value, Len(heap) + 1)
                /\ pc' = "extract"
                /\ UNCHANGED raised
           ELSE LET ref == register[CHOOSE i \in old : TRUE].ref
                IN  /\ heap' = [heap EXCEPT ![ref] = fresh]
                    /\ cur' = Call(p, id.value, ref)
                    /\ pc' = "extract"
                    /\ UNCHANGED raised
    /\ UNCHANGED <<catalog, register, calls, dashOut, fnIn, fnOut, fnDone>>

\* ingest, lines 107-113: the id, and a new record with status "received"; the call
\* ends here when _generate_id raises
IngestCreate(p) ==
    /\ pc = "idle"
    /\ Len(calls) + Len(raised) < MaxIngests
    /\ LET id == GenerateId(p.message, p.customer)
       IN  IF id.exception # "None"
           THEN /\ raised' = Append(raised, Raised(p, id.exception))
                /\ UNCHANGED <<heap, cur, pc>>
           ELSE /\ heap' = Append(heap, GoldenRecord(id.value, p.customer, p.channel,
                                                     "received"))
                /\ cur' = Call(p, id.value, Len(heap) + 1)
                /\ pc' = "extract"
                /\ UNCHANGED raised
    /\ UNCHANGED <<catalog, register, calls, dashOut, fnIn, fnOut, fnDone>>

\* ingest, lines 114-115: the lines, and status "extracted"; when _extract_lines
\* raises the call ends and the record, still "received", is dropped
IngestExtract ==
    /\ pc = "extract"
    /\ LET lines == ExtractLines(cur.message)
       IN  IF lines.exception # "None"
           THEN /\ raised' = Append(raised, Raised(cur, lines.exception))
                /\ cur' = NoCall
                /\ pc' = "idle"
                /\ UNCHANGED heap
           ELSE /\ heap' = [heap EXCEPT ![cur.record].lines = lines.value,
                                        ![cur.record].status = "extracted"]
                /\ pc' = "match"
                /\ UNCHANGED <<cur, raised>>
    /\ UNCHANGED <<catalog, register, calls, dashOut, fnIn, fnOut, fnDone>>

\* ingest, line 116: self._match_and_validate(record)
IngestMatch ==
    /\ pc = "match"
    /\ heap' = [heap EXCEPT ![cur.record] = MatchAndValidate(@, catalog)]
    /\ pc' = "store"
    /\ UNCHANGED <<catalog, register, calls, raised, cur, dashOut, fnIn, fnOut, fnDone>>

\* ingest, lines 117-118: the record goes into the register and is returned
IngestStore ==
    /\ pc = "store"
    /\ register' = RegisterPut(register, cur.request_id, cur.record)
    /\ calls' = Append(calls, [message |-> cur.message, customer |-> cur.customer,
                               channel |-> cur.channel, ret |-> cur.record])
    /\ cur' = NoCall
    /\ pc' = "idle"
    /\ UNCHANGED <<catalog, heap, raised, dashOut, fnIn, fnOut, fnDone>>

\* QuickWinPipeline.dashboard
Dashboard ==
    /\ pc = "idle"
    /\ dashOut' = [i \in DOMAIN register |-> Summary(heap[register[i].ref])]
    /\ UNCHANGED <<catalog, heap, register, calls, raised, pc, cur, fnIn, fnOut, fnDone>>

\* QuickWinPipeline.__init__: an empty register
Init ==
    /\ catalog \in PipelineCatalogs
    /\ heap = <<>>
    /\ register = <<>>
    /\ calls = <<>>
    /\ raised = <<>>
    /\ pc = "idle"
    /\ cur = NoCall
    /\ dashOut = <<>>
    /\ fnIn = <<>>
    /\ fnOut = <<>>
    /\ fnDone = FALSE

Next ==
    \/ \E p \in Payloads : IngestCreate(p)
    \/ IngestExtract
    \/ IngestMatch
    \/ IngestStore
    \/ Dashboard

Spec == Init /\ [][Next]_vars

---------------------------------------------------------------------------
(* _extract_lines as a pure function of the message. *)

ExtractInit ==
    /\ catalog = SampleCatalog
    /\ heap = <<>>
    /\ register = <<>>
    /\ calls = <<>>
    /\ raised = <<>>
    /\ pc = "idle"
    /\ cur = NoCall
    /\ dashOut = <<>>
    /\ fnIn \in ExtractInputs
    /\ fnOut = <<>>
    /\ fnDone = FALSE

ApplyExtract ==
    /\ ~fnDone
    /\ fnOut' = ExtractLines(fnIn)
    /\ fnDone' = TRUE
    /\ UNCHANGED <<catalog, heap, register, calls, raised, pc, cur, dashOut, fnIn>>

ExtractSpec == ExtractInit /\ [][ApplyExtract]_vars

---------------------------------------------------------------------------
(* SKUMatcher.match as a pure function of the description and the catalog. *)

MatchInit ==
    /\ catalog \in Catalogs
    /\ heap = <<>>
    /\ register = <<>>
    /\ calls = <<>>
    /\ raised = <<>>
    /\ pc = "idle"
    /\ cur = NoCall
    /\ dashOut = <<>>
    /\ fnIn \in Descriptions
    /\ fnOut = <<>>
    /\ fnDone = FALSE

ApplyMatch ==
    /\ ~fnDone
    /\ fnOut' = Match(fnIn, catalog)
    /\ fnDone' = TRUE
    /\ UNCHANGED <<catalog, heap, register, calls, raised, pc, cur, dashOut, fnIn>>

MatchSpec == MatchInit /\ [][ApplyMatch]_vars

---------------------------------------------------------------------------
(* The claims. *)

\* the records ingest has returned, and the records the register holds
Returned == {calls[i].ret : i \in DOMAIN calls}
Registered == {register[i].ref : i \in DOMAIN register}

Terminal(status) == status \in {"validated", "needs_review"}

\* C1: every record ingest returned and every record of the register has status
\* "validated" if and only if it has no validation note, and "needs_review" otherwise.
C1_StatusDerivation ==
    \A r \in Returned \cup Registered :
        /\ Terminal(heap[r].status)
        /\ heap[r].status = "validated" <=> heap[r].validation_notes = <<>>

\* the register holds a validated record without notes and a record under review
C1_Witness ==
    \E r1, r2 \in Registered :
        /\ heap[r1].status = "validated" /\ heap[r1].validation_notes = <<>>
        /\ heap[r2].status = "needs_review" /\ heap[r2].validation_notes # <<>>

\* some match of the quantity pattern starts at i: digits, an optional x, whitespace,
\* then an item character
PatternMatchesAt(s, i) ==
    \E d \in i..Len(s), x \in {0, 1}, w \in 1..Len(s) :
        /\ \A k \in i..d : s[k] \in Digit
        /\ x = 1 => (d + 1 <= Len(s) /\ s[d + 1] = 120)
        /\ d + x + w + 1 <= Len(s)
        /\ \A k \in (d + x + 1)..(d + x + w) : s[k] \in Whitespace
        /\ s[d + x + w + 1] \in ItemChar

PatternMatchesSomewhere(s) == \E i \in 1..Len(s) : PatternMatchesAt(s, i)

\* C2: _extract_lines returns at least one line for every message; when the quantity
\* pattern matches nowhere it returns exactly one line, of quantity 1, whose
\* description is the trimmed message.
C2_NonEmptyExtraction ==
    fnDone =>
        /\ fnOut.exception = "None"
        /\ Len(fnOut.value) >= 1
        /\ ~PatternMatchesSomewhere(fnIn) =>
              /\ Len(fnOut.value) = 1
              /\ fnOut.value[1].quantity = <<1>>
              /\ fnOut.value[1].source_description = Strip(fnIn)

\* the last completed ingest of the (customer, message) pair of call i
LastCallOfPair(i) ==
    CHOOSE j \in DOMAIN calls :
        /\ calls[j].customer = calls[i].customer
        /\ calls[j].message = calls[i].message
        /\ \A k \in DOMAIN calls :
              (calls[k].customer = calls[i].customer /\ calls[k].message = calls[i].message)
                  => k <= j

\* C3: two ingests of the same (customer, message) get the same request_id whatever
\* their channels, and the register maps that id to exactly one record, the one the
\* most recent ingest of that pair returned, with the channel of that call.
C3_LastWriteWins ==
    \A i \in DOMAIN calls :
        LET last == calls[LastCallOfPair(i)]
            id == heap[calls[i].ret].request_id
            held == {k \in DOMAIN register : register[k].key = id}
        IN  /\ heap[last.ret].request_id = id
            /\ Cardinality(held) = 1
            /\ \A k \in held :
                  /\ register[k].ref = last.ret
                  /\ heap[register[k].ref].customer = last.customer
                  /\ heap[register[k].ref].channel = last.channel

StartsWith(s, prefix) ==
    Len(s) >= Len(prefix) /\ SubSeq(s, 1, Len(prefix)) = prefix

\* C4: for "Need 2x PVC pipe 2in and 5 copper cable 1.5 for Monday" _extract_lines
\* yields at least two lines, one of quantity 2 whose description starts "PVC pipe"
\* and another of quantity 5 whose description starts "copper cable".
C4_DemoExtraction ==
    (fnDone /\ fnIn = DemoMessage1) =>
        \E i, j \in DOMAIN fnOut.value :
            /\ i # j
            /\ fnOut.value[i].quantity = <<2>>
            /\ StartsWith(fnOut.value[i].source_description,
                          <<80, 86, 67, 32, 112, 105, 112, 101>>)
            /\ fnOut.value[j].quantity = <<5>>
            /\ StartsWith(fnOut.value[j].source_description,
                          <<99, 111, 112, 112, 101, 114, 32, 99, 97, 98, 108, 101>>)

\* C5, as stated: SKUMatcher.match returns a score in [0.0, 0.9].
C5_ScoreAtMostSubstringScore ==
    fnDone => (FLeq(Zero, fnOut.score) /\ FLeq(fnOut.score, SubstringScore))

\* C5, amended: SKUMatcher.match returns a score in [0.0, 1.0]; a score above 0.9 is
\* the token overlap of an alias whose tokens are those of the description in another
\* order.
C5_ScoreInUnitInterval ==
    fnDone => (FLeq(Zero, fnOut.score) /\ FLeq(fnOut.score, Frac(1, 1)))

\* match has returned the score 1.0
C5_Witness == fnDone /\ fnOut.score = Frac(1, 1)

\* the (item, alias) positions of a catalog, and their order in the two loops
AliasPositions(cat) ==
    {p \in (DOMAIN cat) \X (1..(Len(cat) + 2)) : p[2] <= Len(Candidates(cat[p[1]]))}

ScoreAt(cat, p, text) == AliasScore(Candidates(cat[p[1]])[p[2]], text)

Before(p, q) == p[1] < q[1] \/ (p[1] = q[1] /\ p[2] < q[2])

\* C6: match returns the maximum alias score over all items and aliases and the
\* sku_id of the first alias, in catalog order then alias order, that reaches it;
\* when no alias scores above 0 it returns (None, 0.0).
C6_MaxScoreFirstWins ==
    fnDone =>
        LET text == normalized(fnIn)
            all == AliasPositions(catalog)
            positive == {p \in all : FLess(Zero, ScoreAt(catalog, p, text))}
        IN  IF positive = {}
            THEN fnOut = [sku |-> <<>>, score |-> Zero]
            ELSE \E p \in all :
                    /\ \A q \in all : FLeq(ScoreAt(catalog, q, text), ScoreAt(catalog, p, text))
                    /\ \A q \in all :
                          Before(q, p) => FLess(ScoreAt(catalog, q, text),
                                                ScoreAt(catalog, p, text))
                    /\ fnOut = [sku |-> <<catalog[p[1]].sku_id>>,
                                score |-> ScoreAt(catalog, p, text)]

\* two items tie on a token-overlap score that is the maximum, and match has returned
\* the earlier one
C6_Witness ==
    /\ fnDone
    /\ FLess(Zero, fnOut.score)
    /\ fnOut.score # SubstringScore
    /\ \E p, q \in AliasPositions(catalog) :
          /\ p[1] < q[1]
          /\ ScoreAt(catalog, p, normalized(fnIn)) = fnOut.score
          /\ ScoreAt(catalog, q, normalized(fnIn)) = fnOut.score
          /\ fnOut.sku = <<catalog[p[1]].sku_id>>

\* C7: the quantity of every line of every record ingest returned is at least 1
\* (its numeral is not that of zero).
C7_QuantityPositive ==
    \A r \in Returned : \A i \in DOMAIN heap[r].lines : heap[r].lines[i].quantity # <<0>>

\* the kind and the description of the note a line must have, if any: a line has no
\* SKU when matched_sku is None, and a SKU, whatever its sku_id, otherwise
RECURSIVE ExpectedNotes(_, _)
ExpectedNotes(lines, i) ==
    IF i > Len(lines) THEN <<>>
    ELSE (IF lines[i].matched_sku = <<>>
          THEN << <<"No SKU match", lines[i].source_description>> >>
          ELSE IF FLess(lines[i].confidence, Frac(1, 2))
               THEN << <<"Low confidence", lines[i].source_description>> >>
               ELSE <<>>)
         \o ExpectedNotes(lines, i + 1)

\* C8: the notes of every returned record are, in the order of the lines, one
\* "No SKU match" note for each line without a SKU and one "Low confidence" note for
\* each line matched with a score below 0.5, and nothing else: a line matched with a
\* score of at least 0.5 has no note.
C8_NotesFollowLines ==
    \A r \in Returned :
        [k \in DOMAIN heap[r].validation_notes |->
            <<heap[r].validation_notes[k].kind, heap[r].validation_notes[k].description>>]
          = ExpectedNotes(heap[r].lines, 1)

\* C9: every line of every returned record, the fallback line included, has the
\* matched_sku and the confidence SKUMatcher.match returns for its description.
C9_ConfidenceOverwritten ==
    \A r \in Returned : \A i \in DOMAIN heap[r].lines :
        LET m == Match(heap[r].lines[i].source_description, catalog)
        IN  /\ heap[r].lines[i].matched_sku = m.sku
            /\ heap[r].lines[i].confidence = m.score

\* a returned record whose only line is the fallback line, extracted with the
\* confidence 0.1 and matched with the score 0.0
C9_Witness ==
    \E c \in DOMAIN calls :
        /\ ~PatternMatchesSomewhere(calls[c].message)
        /\ ExtractLines(calls[c].message).value[1].confidence = FallbackConfidence
        /\ Len(heap[calls[c].ret].lines) = 1
        /\ heap[calls[c].ret].lines[1].confidence = Zero

Rank(status) ==
    CASE status = "received" -> 0
      [] status = "extracted" -> 1
      [] Terminal(status) -> 2

\* the status of the record of the ingest in progress, by the position in ingest
StatusByPosition ==
    /\ pc = "extract" => (heap[cur.record].status = "received" /\ heap[cur.record].lines = <<>>)
    /\ pc = "match" => (heap[cur.record].status = "extracted" /\ heap[cur.record].lines # <<>>)
    /\ pc = "store" => Terminal(heap[cur.record].status)
    /\ pc # "idle" => cur.record \notin Registered

\* C10: the status of a record only moves forward along received, extracted,
\* (validated | needs_review); the record enters the register only once terminal; and
\* no step, of a later ingest or of dashboard, changes a record that is terminal.
C10_StatusMonotonic ==
    /\ [](StatusByPosition /\ \A r \in Registered : Terminal(heap[r].status))
    /\ [][\A r \in DOMAIN heap :
             /\ Rank(heap'[r].status) >= Rank(heap[r].status)
             /\ Terminal(heap[r].status) => heap'[r] = heap[r]]_vars

\* a second ingest of a request_id is about to store its record while the register
\* still holds the terminal record of the first, and dashboard has been called
C10_Witness ==
    /\ pc = "store"
    /\ dashOut # <<>>
    /\ \E k \in DOMAIN register :
          /\ register[k].key = cur.request_id
          /\ register[k].ref # cur.record
          /\ Terminal(heap[register[k].ref].status)

===========================================================================
